---- MODULE Spec2Model ----
(***************************************************************************)
(* Bookmark Manager: the Express server's in-memory collection and its     *)
(* POST / PUT / DELETE handlers (server index.js), modelled as a state      *)
(* machine over JSON request bodies.                                        *)
(*                                                                         *)
(* JSON values are tagged records; a string is a sequence of one-character *)
(* strings, so that length, lowercasing and URL parsing are computed.      *)
(***************************************************************************)
EXTENDS Integers, Sequences, FiniteSets

\* ------------------------------------------------------------------------
\* JSON / JavaScript values
\* ------------------------------------------------------------------------
\* A property missing from the request body destructures to undefined.
Undefined == [t |-> "undefined"]

Null == [t |-> "null"]

Str(s) == [t |-> "string", s |-> s]

Num(n) == [t |-> "number", n |-> n]

Arr(a) == [t |-> "array", a |-> a]

\* JavaScript truthiness: undefined, null, "" and 0 are falsy; every array,
\* the empty one included, is truthy.
Falsy(v) ==
    \/ v.t = "undefined"
    \/ v.t = "null"
    \/ v.t = "string" /\ v.s = <<>>
    \/ v.t = "number" /\ v.n = 0

\* Array.isArray
IsArray(v) == v.t = "array"

\* v.length > n: a string's or an array's length; any other value has no
\* length property, and undefined > n is false.
LengthGt(v, n) ==
    CASE v.t = "string" -> Len(v.s) > n
      [] v.t = "array" -> Len(v.a) > n
      [] OTHER -> FALSE

\* ------------------------------------------------------------------------
\* Characters and strings
\* ------------------------------------------------------------------------
UpperChars ==
    <<"A", "B", "C", "D", "E", "F", "G", "H", "I", "J", "K", "L", "M",
      "N", "O", "P", "Q", "R", "S", "T", "U", "V", "W", "X", "Y", "Z">>

LowerChars ==
    <<"a", "b", "c", "d", "e", "f", "g", "h", "i", "j", "k", "l", "m",
      "n", "o", "p", "q", "r", "s", "t", "u", "v", "w", "x", "y", "z">>

DigitChars == <<"0", "1", "2", "3", "4", "5", "6", "7", "8", "9">>

Range(f) == {f[i] : i \in DOMAIN f}

UpperSet == Range(UpperChars)

LowerChar(c) ==
    IF c \in UpperSet
    THEN LowerChars[CHOOSE i \in DOMAIN UpperChars : UpperChars[i] = c]
    ELSE c

\* String.prototype.toLowerCase on a sequence of characters
toLowerCase(s) == [i \in DOMAIN s |-> LowerChar(s[i])]

\* 'a'.repeat(n)
Repeat(c, n) == [i \in 1..n |-> c]

RECURSIVE Digits(_)
Digits(n) ==
    IF n < 10 THEN <<DigitChars[n + 1]>>
    ELSE Digits(n \div 10) \o <<DigitChars[(n % 10) + 1]>>

\* toUSVString(v) is String(v), the conversion new URL(v) applies to its argument: an array
\* converts to its elements joined by ",", null and undefined elements to "".
RECURSIVE toUSVString(_)
RECURSIVE JoinComma(_)
JoinComma(a) ==
    IF a = <<>> THEN <<>>
    ELSE LET h == IF a[1].t \in {"null", "undefined"} THEN <<>>
                  ELSE toUSVString(a[1])
         IN IF Len(a) = 1 THEN h ELSE h \o <<",">> \o JoinComma(Tail(a))

toUSVString(v) ==
    CASE v.t = "string" -> v.s
      [] v.t = "number" -> Digits(v.n)
      [] v.t = "null" -> <<"n", "u", "l", "l">>
      [] v.t = "undefined" -> <<"u", "n", "d", "e", "f", "i", "n", "e", "d">>
      [] v.t = "array" -> JoinComma(v.a)

\* ------------------------------------------------------------------------
\* new URL(input) without a base: the part of the WHATWG URL parser that
\* decides whether the constructor throws.  The input is trimmed, must start
\* with a scheme (a letter, then letters, digits, "+", "-", "."), then ":";
\* a special scheme other than file needs a non-empty host free of
\* forbidden characters; any other scheme accepts whatever follows.
\* ------------------------------------------------------------------------
Letters == UpperSet \cup Range(LowerChars)

SchemeChars == Letters \cup Range(DigitChars) \cup {"+", "-", "."}

Slashes == {"/", "\\"}

HostStops == {"/", "\\", "?", "#", ":"}

ForbiddenHostChars == {" ", "<", ">", "^", "|", "%", "[", "]", "@"}

RECURSIVE TrimLeft(_)
TrimLeft(s) ==
    IF s # <<>> /\ s[1] = " " THEN TrimLeft(Tail(s)) ELSE s

RECURSIVE TrimRight(_)
TrimRight(s) ==
    IF s # <<>> /\ s[Len(s)] = " "
    THEN TrimRight(SubSeq(s, 1, Len(s) - 1)) ELSE s

\* Position of the ":" that ends a well-formed scheme, 0 when there is none.
SchemeEnd(s) ==
    IF s = <<>> \/ s[1] \notin Letters THEN 0
    ELSE LET colons == {i \in DOMAIN s : s[i] = ":"}
         IN IF colons = {} THEN 0
            ELSE LET c == CHOOSE i \in colons : \A j \in colons : i <= j
                 IN IF \A j \in 1..(c - 1) : s[j] \in SchemeChars
                    THEN c ELSE 0

SpecialSchemes ==
    { <<"h", "t", "t", "p">>, <<"h", "t", "t", "p", "s">>,
      <<"f", "t", "p">>, <<"w", "s">>, <<"w", "s", "s">> }

RECURSIVE SkipSlashes(_)
SkipSlashes(s) ==
    IF s # <<>> /\ s[1] \in Slashes THEN SkipSlashes(Tail(s)) ELSE s

\* The host of a special URL: up to the first "/", "\", "?", "#" or ":".
Host(s) ==
    LET stops == {i \in DOMAIN s : s[i] \in HostStops}
    IN IF stops = {} THEN s
       ELSE SubSeq(s, 1, (CHOOSE i \in stops : \A j \in stops : i <= j) - 1)

UrlParses(input) ==
    LET s == TrimRight(TrimLeft(input))
        c == SchemeEnd(s)
    IN /\ c # 0
       /\ toLowerCase(SubSeq(s, 1, c - 1)) \in SpecialSchemes
            => LET h == Host(SkipSlashes(SubSeq(s, c + 1, Len(s))))
               IN h # <<>> /\ \A i \in DOMAIN h : h[i] \notin ForbiddenHostChars

\* const isValidUrl = (url) => { try { new URL(url); return true } catch {...} }
isValidUrl(url) == UrlParses(toUSVString(url))

\* ------------------------------------------------------------------------
\* The seeded collection (let bookmarks = [...]) and the request inputs
\* ------------------------------------------------------------------------
ReactUrl ==
    <<"h", "t", "t", "p", "s", ":", "/", "/", "r", "e", "a", "c", "t", ".",
      "d", "e", "v">>

ReactTitle ==
    <<"R", "e", "a", "c", "t", " ", "D", "o", "c", "u", "m", "e", "n", "t",
      "a", "t", "i", "o", "n">>

ReactDescription ==
    <<"O", "f", "f", "i", "c", "i", "a", "l", " ", "R", "e", "a", "c", "t",
      " ", "d", "o", "c", "u", "m", "e", "n", "t", "a", "t", "i", "o", "n",
      " ", "a", "n", "d", " ", "t", "u", "t", "o", "r", "i", "a", "l", "s">>

NodeUrl ==
    <<"h", "t", "t", "p", "s", ":", "/", "/", "n", "o", "d", "e", "j", "s",
      ".", "o", "r", "g">>

NodeTitle ==
    <<"N", "o", "d", "e", ".", "j", "s">>

NodeDescription ==
    <<"J", "a", "v", "a", "S", "c", "r", "i", "p", "t", " ", "r", "u", "n",
      "t", "i", "m", "e", " ", "b", "u", "i", "l", "t", " ", "o", "n", " ",
      "C", "h", "r", "o", "m", "e", "'", "s", " ", "V", "8", " ", "e", "n",
      "g", "i", "n", "e">>

TailwindUrl ==
    <<"h", "t", "t", "p", "s", ":", "/", "/", "t", "a", "i", "l", "w", "i",
      "n", "d", "c", "s", "s", ".", "c", "o", "m">>

TailwindTitle ==
    <<"T", "a", "i", "l", "w", "i", "n", "d", " ", "C", "S", "S">>

TailwindDescription ==
    <<"A", " ", "u", "t", "i", "l", "i", "t", "y", "-", "f", "i", "r", "s",
      "t", " ", "C", "S", "S", " ", "f", "r", "a", "m", "e", "w", "o", "r",
      "k">>

ExpressUrl ==
    <<"h", "t", "t", "p", "s", ":", "/", "/", "e", "x", "p", "r", "e", "s",
      "s", "j", "s", ".", "c", "o", "m">>

ExpressTitle ==
    <<"E", "x", "p", "r", "e", "s", "s", ".", "j", "s">>

ExpressDescription ==
    <<"F", "a", "s", "t", ",", " ", "u", "n", "o", "p", "i", "n", "i", "o",
      "n", "a", "t", "e", "d", " ", "w", "e", "b", " ", "f", "r", "a", "m",
      "e", "w", "o", "r", "k", " ", "f", "o", "r", " ", "N", "o", "d", "e",
      ".", "j", "s">>

ViteUrl ==
    <<"h", "t", "t", "p", "s", ":", "/", "/", "v", "i", "t", "e", "j", "s",
      ".", "d", "e", "v">>

ViteTitle ==
    <<"V", "i", "t", "e">>

ViteDescription ==
    <<"N", "e", "x", "t", " ", "g", "e", "n", "e", "r", "a", "t", "i", "o",
      "n", " ", "f", "r", "o", "n", "t", "e", "n", "d", " ", "t", "o", "o",
      "l", "i", "n", "g">>

TagReact ==
    <<"r", "e", "a", "c", "t">>

TagJavascript ==
    <<"j", "a", "v", "a", "s", "c", "r", "i", "p", "t">>

TagFrontend ==
    <<"f", "r", "o", "n", "t", "e", "n", "d">>

TagNodejs ==
    <<"n", "o", "d", "e", "j", "s">>

TagBackend ==
    <<"b", "a", "c", "k", "e", "n", "d">>

TagCss ==
    <<"c", "s", "s">>

TagTailwind ==
    <<"t", "a", "i", "l", "w", "i", "n", "d">>

TagExpress ==
    <<"e", "x", "p", "r", "e", "s", "s">>

TagVite ==
    <<"v", "i", "t", "e">>

TagBuildTool ==
    <<"b", "u", "i", "l", "d", "-", "t", "o", "o", "l">>

ExampleUrl ==
    <<"h", "t", "t", "p", "s", ":", "/", "/", "e", "x", "a", "m", "p", "l",
      "e", ".", "c", "o", "m">>

NotAValidUrl ==
    <<"n", "o", "t", "-", "a", "-", "v", "a", "l", "i", "d", "-", "u", "r",
      "l">>

HttpExampleUrl ==
    <<"h", "t", "t", "p", ":", "/", "/", "e", "x", "a", "m", "p", "l", "e",
      ".", "c", "o", "m">>

HttpNoHost ==
    <<"h", "t", "t", "p", ":", "/", "/">>

TestTitle ==
    <<"T", "e", "s", "t">>

TestDescription ==
    <<"A", " ", "t", "e", "s", "t", " ", "b", "o", "o", "k", "m", "a", "r",
      "k">>

TagTest ==
    <<"t", "e", "s", "t">>

TagUpper ==
    <<"R", "e", "a", "c", "t">>

\* A stored bookmark.  id stands for the uuid string, createdAt for the
\* ISO timestamp (the clock reading when the record was built).
Bookmark(id, url, title, description, tags, createdAt) ==
    [id |-> id, url |-> url, title |-> title, description |-> description,
     tags |-> tags, createdAt |-> createdAt]

Tags(a) == Arr([i \in DOMAIN a |-> Str(a[i])])

SeedBookmarks ==
    << Bookmark(1, Str(ReactUrl), Str(ReactTitle), Str(ReactDescription),
                Tags(<<TagReact, TagJavascript, TagFrontend>>), 0),
       Bookmark(2, Str(NodeUrl), Str(NodeTitle), Str(NodeDescription),
                Tags(<<TagNodejs, TagJavascript, TagBackend>>), 0),
       Bookmark(3, Str(TailwindUrl), Str(TailwindTitle), Str(TailwindDescription),
                Tags(<<TagCss, TagTailwind, TagFrontend>>), 0),
       Bookmark(4, Str(ExpressUrl), Str(ExpressTitle), Str(ExpressDescription),
                Tags(<<TagExpress, TagNodejs, TagBackend>>), 0),
       Bookmark(5, Str(ViteUrl), Str(ViteTitle), Str(ViteDescription),
                Tags(<<TagVite, TagBuildTool, TagFrontend>>), 0) >>

\* Limits written in the validation code
MaxTitleLength == 200

MaxDescriptionLength == 500

MaxTags == 5

\* Number of requests a behaviour handles; also the last clock reading.
\* It stays far below the 100 requests per window the rate limiter lets
\* through, so every request of a behaviour reaches its handler.
MaxRequests == 2

\* A request body: the four fields the handlers destructure, and the id and
\* createdAt a client may send along (the handlers never read them).
Body(url, title, description, tags, id, createdAt) ==
    [url |-> url, title |-> title, description |-> description,
     tags |-> tags, id |-> id, createdAt |-> createdAt]

EmptyBody == Body(Undefined, Undefined, Undefined, Undefined, Undefined, Undefined)

FullBody ==
    Body(Str(ExampleUrl), Str(TestTitle), Str(TestDescription),
         Tags(<<TagTest, TagReact>>), Undefined, Undefined)

SixTags == Tags(<<TagTest, TagTest, TagReact, TagCss, TagVite, TagNodejs>>)

\* Every subset of {url, title, description, tags} supplied with a valid value
SubsetBodies ==
    { Body(u, t, d, g, Undefined, Undefined) :
        u \in {Undefined, Str(ExampleUrl)}, t \in {Undefined, Str(TestTitle)},
        d \in {Undefined, Str(TestDescription)},
        g \in {Undefined, Tags(<<TagTest, TagReact>>)} }

\* One field of a body replaced by an edge value: empty, malformed, at and
\* over a limit, of another JSON type; and a body that carries id / createdAt
EdgeBodies ==
    { [EmptyBody EXCEPT !.url = Str(<<>>)],
      [EmptyBody EXCEPT !.title = Str(<<>>)],
      [EmptyBody EXCEPT !.description = Null],
      [EmptyBody EXCEPT !.id = Num(2), !.createdAt = Num(7)],
      [FullBody EXCEPT !.url = Str(NotAValidUrl)],
      [FullBody EXCEPT !.url = Str(HttpNoHost)],
      [FullBody EXCEPT !.title = Str(Repeat("a", MaxTitleLength))],
      [FullBody EXCEPT !.title = Str(Repeat("a", MaxTitleLength + 1))],
      [FullBody EXCEPT !.title = Num(5)],
      [FullBody EXCEPT !.description = Str(<<>>)],
      [FullBody EXCEPT !.tags = SixTags],
      [FullBody EXCEPT !.tags = Tags(<<TagTest, TagUpper>>)],
      [FullBody EXCEPT !.tags = Arr(<<Str(TagTest), Num(1)>>)] }

Bodies == SubsetBodies \cup EdgeBodies

SixTagsUpper == Tags(<<TagTest, TagTest, TagReact, TagUpper, TagVite, TagNodejs>>)

\* Bodies breaking the rules of any combination of fields: each field is
\* absent, breaks its rule, or holds a valid value; tags break each of the
\* three tag rules, two of them at once, hold a non-string element, or are
\* null
WideBodies ==
    { Body(u, t, d, g, Undefined, Undefined) :
        u \in {Undefined, Str(NotAValidUrl), Str(ExampleUrl)},
        t \in {Undefined, Str(Repeat("a", MaxTitleLength + 1)), Str(TestTitle)},
        d \in {Undefined, Str(Repeat("a", MaxDescriptionLength + 1)),
               Str(TestDescription)},
        g \in {Undefined, Null, Str(TagTest), SixTags, SixTagsUpper,
               Tags(<<TagTest, TagUpper>>), Tags(<<TagTest>>),
               Arr(<<Str(TagTest), Num(1)>>)} }

\* The requests the second specification handles
MaxWideRequests == 1

\* ------------------------------------------------------------------------
\* State
\* ------------------------------------------------------------------------
VARIABLES
    bookmarks,  \* the in-memory collection (let bookmarks)
    nextId,     \* the next uuid uuidv4() hands out
    clock,      \* the reading of new Date(); one tick per handled request
    req,        \* the request handled last
    res,        \* the response sent for it
    deleted,    \* history: the ids whose DELETE succeeded
    client,     \* the state of the App component (its useState values)
    form,       \* the state of the form the user works in
    pending,    \* the client's calls whose response has not arrived
    issued,     \* the number of calls the client has issued
    pagination  \* the Pagination component: its props and what it renders

serverVars == <<bookmarks, nextId, clock, req, res, deleted>>

clientVars == <<client, form, pending, issued, pagination>>

vars == <<bookmarks, nextId, clock, req, res, deleted,
          client, form, pending, issued, pagination>>

\* ------------------------------------------------------------------------
\* Helpers of the handlers
\* ------------------------------------------------------------------------
\* Variant: the lowest identifier no stored bookmark uses
uuidv4_lowestFree ==
    CHOOSE n \in 1..(Len(bookmarks) + 1) :
        /\ \A i \in DOMAIN bookmarks : bookmarks[i].id # n
        /\ \A m \in 1..(n - 1) : \E i \in DOMAIN bookmarks : bookmarks[i].id = m

\* uuidv4(): an identifier no earlier call returned
uuidv4 == nextId

\* bookmarks.findIndex(b => b.id === id); 0 stands for JavaScript's -1
findIndex(bs, id) ==
    IF \E i \in DOMAIN bs : bs[i].id = id
    THEN CHOOSE i \in DOMAIN bs :
            bs[i].id = id /\ \A j \in 1..(i - 1) : bs[j].id # id
    ELSE 0

\* tags.some(tag => tag !== tag.toLowerCase()), left to right: "true" at the
\* first string that differs from its lowercase form, "throw" at the first
\* element that is no string (it has no toLowerCase method), else "false".
RECURSIVE hasUppercase(_)
hasUppercase(a) ==
    IF a = <<>> THEN "false"
    ELSE IF a[1].t # "string" THEN "throw"
    ELSE IF a[1].s # toLowerCase(a[1].s) THEN "true"
    ELSE hasUppercase(Tail(a))

\* Variant: the count check is off by one
tagErrors_offByOne(tags) ==
    IF ~IsArray(tags) THEN <<"Tags must be an array">>
    ELSE IF Len(tags.a) > MaxTags + 1 THEN <<"Maximum 5 tags allowed">>
    ELSE IF hasUppercase(tags.a) = "true" THEN <<"Tags must be lowercase">>
    ELSE <<>>

\* Variant: the count check does not suppress the casing check
tagErrors_collectAll(tags) ==
    IF ~IsArray(tags) THEN <<"Tags must be an array">>
    ELSE (IF Len(tags.a) > MaxTags THEN <<"Maximum 5 tags allowed">> ELSE <<>>)
         \o (IF hasUppercase(tags.a) = "true"
             THEN <<"Tags must be lowercase">> ELSE <<>>)

\* The three tag checks, entered once the handler decided to check tags
tagErrors(tags) ==
    IF ~IsArray(tags) THEN <<"Tags must be an array">>
    ELSE IF Len(tags.a) > MaxTags THEN <<"Maximum 5 tags allowed">>
    ELSE IF hasUppercase(tags.a) = "true" THEN <<"Tags must be lowercase">>
    ELSE <<>>

\* Variant: a non-string element never throws
tagsThrow_never(tags) == FALSE

\* The tag checks end in a TypeError
tagsThrow(tags) ==
    IsArray(tags) /\ Len(tags.a) <= MaxTags /\ hasUppercase(tags.a) = "throw"

\* errors.join(', ')
RECURSIVE join(_)
join(errors) ==
    IF errors = <<>> THEN ""
    ELSE IF Len(errors) = 1 THEN errors[1]
    ELSE errors[1] \o ", " \o join(Tail(errors))

Success(status, data) ==
    [status |-> status, success |-> TRUE, data |-> <<data>>, error |-> ""]

Failure(status, error) ==
    [status |-> status, success |-> FALSE, data |-> <<>>, error |-> error]

\* ------------------------------------------------------------------------
\* POST /bookmarks
\* ------------------------------------------------------------------------
\* Variant: validation stops at the first field that fails
postErrors_firstOnly(body) ==
    IF Falsy(body.url) THEN <<"URL is required">>
    ELSE IF ~isValidUrl(body.url) THEN <<"URL must be valid">>
    ELSE IF Falsy(body.title) THEN <<"Title is required">>
    ELSE IF LengthGt(body.title, MaxTitleLength)
    THEN <<"Title must be max 200 characters">>
    ELSE IF ~Falsy(body.description)
            /\ LengthGt(body.description, MaxDescriptionLength)
    THEN <<"Description must be max 500 characters">>
    ELSE IF ~Falsy(body.tags) THEN tagErrors(body.tags)
    ELSE <<>>

postErrors(body) ==
    (IF Falsy(body.url) THEN <<"URL is required">>
     ELSE IF ~isValidUrl(body.url) THEN <<"URL must be valid">>
     ELSE <<>>)
    \o (IF Falsy(body.title) THEN <<"Title is required">>
        ELSE IF LengthGt(body.title, MaxTitleLength)
        THEN <<"Title must be max 200 characters">>
        ELSE <<>>)
    \o (IF ~Falsy(body.description)
           /\ LengthGt(body.description, MaxDescriptionLength)
        THEN <<"Description must be max 500 characters">>
        ELSE <<>>)
    \o (IF ~Falsy(body.tags) THEN tagErrors(body.tags) ELSE <<>>)

postThrows(body) == ~Falsy(body.tags) /\ tagsThrow(body.tags)

\* Variant: the id is the collection's length plus one, not a uuid
newBookmark_idFromLength(body, id, now) ==
    Bookmark(Len(bookmarks) + 1, body.url, body.title,
             IF Falsy(body.description) THEN Undefined ELSE body.description,
             IF Falsy(body.tags) THEN Undefined ELSE body.tags,
             now)

newBookmark(body, id, now) ==
    Bookmark(id, body.url, body.title,
             IF Falsy(body.description) THEN Undefined ELSE body.description,
             IF Falsy(body.tags) THEN Undefined ELSE body.tags,
             now)

\* Variant: bookmarks.unshift(newBookmark)
postHandler_unshift(bs, body, id, now) ==
    IF postThrows(body)
    THEN [bookmarks |-> bs, res |-> Failure(500, "Internal server error")]
    ELSE IF postErrors(body) # <<>>
    THEN [bookmarks |-> bs, res |-> Failure(400, join(postErrors(body)))]
    ELSE [bookmarks |-> <<newBookmark(body, id, now)>> \o bs,
          res |-> Success(201, newBookmark(body, id, now))]

\* The handler as a function of the collection, the body, the uuid and the
\* clock reading: the collection it leaves and the response it sends.
postHandler(bs, body, id, now) ==
    IF postThrows(body)
    THEN [bookmarks |-> bs, res |-> Failure(500, "Internal server error")]
    ELSE IF postErrors(body) # <<>>
    THEN [bookmarks |-> bs, res |-> Failure(400, join(postErrors(body)))]
    ELSE [bookmarks |-> Append(bs, newBookmark(body, id, now)),
          res |-> Success(201, newBookmark(body, id, now))]

\* ------------------------------------------------------------------------
\* PUT /bookmarks/:id
\* ------------------------------------------------------------------------
Supplied(v) == v.t # "undefined"

putErrors(body) ==
    (IF Supplied(body.url) /\ ~isValidUrl(body.url)
     THEN <<"URL must be valid">> ELSE <<>>)
    \o (IF ~Supplied(body.title) THEN <<>>
        ELSE IF Falsy(body.title) THEN <<"Title is required">>
        ELSE IF LengthGt(body.title, MaxTitleLength)
        THEN <<"Title must be max 200 characters">>
        ELSE <<>>)
    \o (IF Supplied(body.description) /\ ~Falsy(body.description)
           /\ LengthGt(body.description, MaxDescriptionLength)
        THEN <<"Description must be max 500 characters">>
        ELSE <<>>)
    \o (IF Supplied(body.tags) THEN tagErrors(body.tags) ELSE <<>>)

putThrows(body) == Supplied(body.tags) /\ tagsThrow(body.tags)

\* Variant: description is overwritten also when the body has none
updatedBookmark_dropDescription(old, body) ==
    [old EXCEPT
        !.url = IF Supplied(body.url) THEN body.url ELSE old.url,
        !.title = IF Supplied(body.title) THEN body.title ELSE old.title,
        !.description = body.description,
        !.tags = IF Supplied(body.tags) THEN body.tags ELSE old.tags]

\* Variant: { ...bookmarks[bookmarkIndex], ...req.body }, so that a body's
\* own id and createdAt land in the record
updatedBookmark_spreadBody(old, body) ==
    [old EXCEPT
        !.id = IF Supplied(body.id) THEN body.id.n ELSE old.id,
        !.createdAt = IF Supplied(body.createdAt) THEN body.createdAt.n
                      ELSE old.createdAt,
        !.url = IF Supplied(body.url) THEN body.url ELSE old.url,
        !.title = IF Supplied(body.title) THEN body.title ELSE old.title,
        !.description = IF Supplied(body.description) THEN body.description
                        ELSE old.description,
        !.tags = IF Supplied(body.tags) THEN body.tags ELSE old.tags]

updatedBookmark(old, body) ==
    [old EXCEPT
        !.url = IF Supplied(body.url) THEN body.url ELSE old.url,
        !.title = IF Supplied(body.title) THEN body.title ELSE old.title,
        !.description = IF Supplied(body.description) THEN body.description
                        ELSE old.description,
        !.tags = IF Supplied(body.tags) THEN body.tags ELSE old.tags]

\* Variant: the record is written before the errors are looked at
putHandler_writeFirst(bs, id, body) ==
    LET bookmarkIndex == findIndex(bs, id)
    IN IF bookmarkIndex = 0
       THEN [bookmarks |-> bs, res |-> Failure(404, "Bookmark not found")]
       ELSE IF putThrows(body)
       THEN [bookmarks |-> bs, res |-> Failure(500, "Internal server error")]
       ELSE [bookmarks |->
                [bs EXCEPT ![bookmarkIndex] =
                    updatedBookmark(bs[bookmarkIndex], body)],
             res |-> IF putErrors(body) # <<>>
                     THEN Failure(400, join(putErrors(body)))
                     ELSE Success(200, updatedBookmark(bs[bookmarkIndex], body))]

\* Variant: the body is validated before the bookmark is looked up
putHandler_validateFirst(bs, id, body) ==
    LET bookmarkIndex == findIndex(bs, id)
    IN IF putThrows(body)
       THEN [bookmarks |-> bs, res |-> Failure(500, "Internal server error")]
       ELSE IF putErrors(body) # <<>>
       THEN [bookmarks |-> bs, res |-> Failure(400, join(putErrors(body)))]
       ELSE IF bookmarkIndex = 0
       THEN [bookmarks |-> bs, res |-> Failure(404, "Bookmark not found")]
       ELSE [bookmarks |->
                [bs EXCEPT ![bookmarkIndex] =
                    updatedBookmark(bs[bookmarkIndex], body)],
             res |-> Success(200, updatedBookmark(bs[bookmarkIndex], body))]

putHandler(bs, id, body) ==
    LET bookmarkIndex == findIndex(bs, id)
    IN IF bookmarkIndex = 0
       THEN [bookmarks |-> bs, res |-> Failure(404, "Bookmark not found")]
       ELSE IF putThrows(body)
       THEN [bookmarks |-> bs, res |-> Failure(500, "Internal server error")]
       ELSE IF putErrors(body) # <<>>
       THEN [bookmarks |-> bs, res |-> Failure(400, join(putErrors(body)))]
       ELSE [bookmarks |->
                [bs EXCEPT ![bookmarkIndex] =
                    updatedBookmark(bs[bookmarkIndex], body)],
             res |-> Success(200, updatedBookmark(bs[bookmarkIndex], body))]

\* ------------------------------------------------------------------------
\* DELETE /bookmarks/:id
\* ------------------------------------------------------------------------
\* Variant: bs.splice(index, 2)
splice_two(bs, index) ==
    SubSeq(bs, 1, index - 1) \o SubSeq(bs, index + 2, Len(bs))

\* bs.splice(index, 1)
splice(bs, index) ==
    SubSeq(bs, 1, index - 1) \o SubSeq(bs, index + 1, Len(bs))

deleteHandler(bs, id) ==
    LET bookmarkIndex == findIndex(bs, id)
    IN IF bookmarkIndex = 0
       THEN [bookmarks |-> bs, res |-> Failure(404, "Bookmark not found")]
       ELSE [bookmarks |-> splice(bs, bookmarkIndex),
             res |-> Success(200, bs[bookmarkIndex])]

\* ------------------------------------------------------------------------
\* GET /bookmarks
\* ------------------------------------------------------------------------
\* Variant: the query value is compared as given
queryTag_asGiven(tag) == Str(tag.s)

\* tag.toLowerCase() of a string query value
queryTag(tag) == Str(toLowerCase(tag.s))

\* bookmark.tags && bookmark.tags.includes(wanted)
hasTag(bookmark, wanted) ==
    /\ ~Falsy(bookmark.tags)
    /\ \E k \in DOMAIN bookmark.tags.a : bookmark.tags.a[k] = wanted

\* bs.filter(bookmark => hasTag(bookmark, wanted)): the records the callback
\* keeps, in the order of bs
RECURSIVE filterByTag(_, _)
filterByTag(bs, wanted) ==
    IF bs = <<>> THEN <<>>
    ELSE IF hasTag(Head(bs), wanted)
         THEN <<Head(bs)>> \o filterByTag(Tail(bs), wanted)
         ELSE filterByTag(Tail(bs), wanted)

\* A query value that is not a string (?tag=a&tag=b parses to an array) has
\* no toLowerCase: the callback throws at the first record with truthy tags
listThrows(bs, tag) ==
    /\ ~Falsy(tag)
    /\ tag.t # "string"
    /\ \E i \in DOMAIN bs : ~Falsy(bs[i].tags)

SuccessList(result) ==
    [status |-> 200, success |-> TRUE, data |-> result, error |-> ""]

\* Variant: the filtered result is assigned to the collection
listHandler_filterInPlace(bs, tag) ==
    IF listThrows(bs, tag)
    THEN [bookmarks |-> bs, res |-> Failure(500, "Internal server error")]
    ELSE LET result == IF Falsy(tag) THEN bs
                       ELSE IF tag.t # "string" THEN <<>>
                       ELSE filterByTag(bs, queryTag(tag))
         IN [bookmarks |-> result, res |-> SuccessList(result)]

listHandler(bs, tag) ==
    IF listThrows(bs, tag)
    THEN [bookmarks |-> bs, res |-> Failure(500, "Internal server error")]
    ELSE LET result == IF Falsy(tag) THEN bs
                       ELSE IF tag.t # "string" THEN <<>>
                       ELSE filterByTag(bs, queryTag(tag))
         IN [bookmarks |-> bs, res |-> SuccessList(result)]

\* ------------------------------------------------------------------------
\* GET /bookmarks/metadata
\* ------------------------------------------------------------------------
UnableToFetchTitle ==
    <<"U", "n", "a", "b", "l", "e", " ", "t", "o", " ", "f", "e", "t", "c",
      "h", " ", "t", "i", "t", "l", "e">>

\* What the external fetch of the page gives: it rejects (network error,
\* timeout), or it gives a page whose <title> element is missing (Undefined)
\* or holds the given text
FetchFailed == [kind |-> "rejected", title |-> Undefined]

Page(title) == [kind |-> "page", title |-> title]

FetchOutcomes ==
    {FetchFailed, Page(Undefined), Page(Str(<<" ">>)), Page(Str(TestTitle))}

\* title.trim()
trim(s) == TrimRight(TrimLeft(s))

\* fetchMetadata: the trimmed title of the page, null when the fetch rejects
\* or the title is missing or blank
fetchMetadata(fetched) ==
    IF fetched.kind = "rejected" THEN Null
    ELSE LET title == IF fetched.title = Undefined THEN <<>>
                      ELSE trim(fetched.title.s)
         IN IF title = <<>> THEN Null ELSE Str(title)

\* title || 'Unable to fetch title'
metadataTitle(title) ==
    IF Falsy(title) THEN Str(UnableToFetchTitle) ELSE title

\* fault: an exception escapes inside the route's try block (fetchMetadata
\* swallows its own)
metadataHandler(url, fetched, fault) ==
    IF fault THEN Failure(500, "Failed to fetch metadata")
    ELSE IF Falsy(url) \/ ~isValidUrl(url)
    THEN Failure(400, "Valid URL is required")
    ELSE Success(200, [title |-> metadataTitle(fetchMetadata(fetched))])

\* ------------------------------------------------------------------------
\* The client: App.jsx
\* ------------------------------------------------------------------------
itemsPerPage == 9

\* The useState initial values of App
App ==
    [bookmarks |-> <<>>, searchQuery |-> <<>>, activeTag |-> <<>>,
     error |-> "", currentPage |-> 1]

\* Math.ceil(n / d)
ceil(n, d) == (n + d - 1) \div d

\* s.includes(q)
includes(s, q) ==
    \/ q = <<>>
    \/ \E i \in 0..(Len(s) - Len(q)) :
          LowerChar(s[i + 1]) = LowerChar(q[1])
          /\ toLowerCase(SubSeq(s, i + 1, i + Len(q))) = toLowerCase(q)

\* The url and title texts of the seeded bookmarks and of the forms
Texts ==
    {ReactUrl, NodeUrl, TailwindUrl, ExpressUrl, ViteUrl, ReactTitle,
     NodeTitle, TailwindTitle, ExpressTitle, ViteTitle, ExampleUrl,
     HttpExampleUrl, TestTitle}

QueryHttps == <<"h", "t", "t", "p", "s">>

SearchQueries == {<<>>, QueryHttps}

\* text.toLowerCase().includes(searchQuery.toLowerCase()), tabulated for the
\* texts and the search strings above
Matches ==
    [searchQuery \in SearchQueries |->
        {text \in Texts : includes(text, searchQuery)}]

toLowerCaseIncludes(text, searchQuery) ==
    IF text \in Texts /\ searchQuery \in SearchQueries
    THEN text \in Matches[searchQuery]
    ELSE includes(text, searchQuery)

matchesSearch(bookmark, searchQuery) ==
    \/ searchQuery = <<>>
    \/ toLowerCaseIncludes(bookmark.title.s, searchQuery)
    \/ toLowerCaseIncludes(bookmark.url.s, searchQuery)

filteredBookmarks(c) ==
    SelectSeq(c.bookmarks, LAMBDA b : matchesSearch(b, c.searchQuery))

totalPages(c) == ceil(Len(filteredBookmarks(c)), itemsPerPage)

\* filteredBookmarks.slice(indexOfFirstItem, indexOfLastItem)
currentBookmarks(c) ==
    LET indexOfLastItem == c.currentPage * itemsPerPage
        indexOfFirstItem == indexOfLastItem - itemsPerPage
        last == IF indexOfLastItem < Len(filteredBookmarks(c))
                THEN indexOfLastItem ELSE Len(filteredBookmarks(c))
    IN SubSeq(filteredBookmarks(c), indexOfFirstItem + 1, last)

\* ------------------------------------------------------------------------
\* Pagination.jsx
\* ------------------------------------------------------------------------
maxVisible == 5

\* The '...' entry of pages
Ellipsis == Str(<<".", ".", ".">>)

\* for (let i = 1; i <= totalPages; i++) pages.push(i)
AllPages(total) == [i \in 1..total |-> Num(i)]

\* Variant: at most four pages are shown without an ellipsis
getPageNumbers_maxVisibleFour(currentPage, total) ==
    IF total <= 4 THEN AllPages(total)
    ELSE IF currentPage <= 3
    THEN <<Num(1), Num(2), Num(3), Num(4), Ellipsis, Num(total)>>
    ELSE IF currentPage >= total - 2
    THEN <<Num(1), Ellipsis, Num(total - 3), Num(total - 2),
           Num(total - 1), Num(total)>>
    ELSE <<Num(1), Ellipsis, Num(currentPage - 1), Num(currentPage),
           Num(currentPage + 1), Ellipsis, Num(total)>>

\* getPageNumbers
getPageNumbers(currentPage, total) ==
    IF total <= maxVisible THEN AllPages(total)
    ELSE IF currentPage <= 3
    THEN <<Num(1), Num(2), Num(3), Num(4), Ellipsis, Num(total)>>
    ELSE IF currentPage >= total - 2
    THEN <<Num(1), Ellipsis, Num(total - 3), Num(total - 2),
           Num(total - 1), Num(total)>>
    ELSE <<Num(1), Ellipsis, Num(currentPage - 1), Num(currentPage),
           Num(currentPage + 1), Ellipsis, Num(total)>>

\* Pagination with its props, before it has rendered and after
Pagination(currentPage, total, pageNumbers) ==
    [currentPage |-> currentPage, totalPages |-> total,
     pageNumbers |-> pageNumbers]

\* App renders Pagination only when totalPages > 1
NoPagination == Pagination(1, 1, <<>>)

\* The promise of fetch() rejects: the server is not reached
Rejected == [status |-> 0, success |-> FALSE, data |-> <<>>, error |-> ""]

\* A call of one of App's async handlers that awaits its response: bs and
\* page are the bookmarks and currentPage of the render the handler closes
\* over
Call(nr, kind, id, bs, page, response) ==
    [nr |-> nr, kind |-> kind, id |-> id, bookmarks |-> bs,
     currentPage |-> page, response |-> response]

\* Variant: a response is applied only while the cache is still empty
fetchBookmarks_firstWins(c, call) ==
    IF call.response = Rejected
    THEN [c EXCEPT !.error = "Failed to fetch bookmarks"]
    ELSE IF call.response.success
    THEN [c EXCEPT !.bookmarks = IF @ = <<>> THEN call.response.data ELSE @,
                   !.error = "", !.currentPage = 1]
    ELSE [c EXCEPT !.error = call.response.error]

\* fetchBookmarks after its await
fetchBookmarks(c, call) ==
    IF call.response = Rejected
    THEN [c EXCEPT !.error = "Failed to fetch bookmarks"]
    ELSE IF call.response.success
    THEN [c EXCEPT !.bookmarks = call.response.data, !.error = "",
                   !.currentPage = 1]
    ELSE [c EXCEPT !.error = call.response.error]

\* Variant: the new record is put behind the cached ones
handleAddBookmark_append(c, call) ==
    IF call.response = Rejected
    THEN [c EXCEPT !.error = "Failed to add bookmark"]
    ELSE IF call.response.success
    THEN [c EXCEPT !.bookmarks = call.bookmarks \o call.response.data,
                   !.error = "", !.currentPage = 1]
    ELSE [c EXCEPT !.error = call.response.error]

\* fetchMetadata of App after its await: the title of the response, null on
\* an error response, on a title that is falsy, and when the fetch rejects
clientFetchMetadata(response) ==
    IF response = Rejected THEN Null
    ELSE IF response.success /\ ~Falsy(response.data[1].title)
    THEN response.data[1].title
    ELSE Null

\* handleUrlBlur after its await: a title that is truthy is put into the
\* form, and the finally block clears fetching
handleUrlBlur(f, call) ==
    LET title == clientFetchMetadata(call.response)
    IN IF Falsy(title) THEN [f EXCEPT !.fetching = FALSE]
       ELSE [f EXCEPT !.formData.title = title.s, !.fetching = FALSE]

\* handleAddBookmark after its await
handleAddBookmark(c, call) ==
    IF call.response = Rejected
    THEN [c EXCEPT !.error = "Failed to add bookmark"]
    ELSE IF call.response.success
    THEN [c EXCEPT !.bookmarks = call.response.data \o call.bookmarks,
                   !.error = "", !.currentPage = 1]
    ELSE [c EXCEPT !.error = call.response.error]

\* bookmarks.map(b => b.id === id ? data.data : b)
replaceById(bs, id, data) ==
    [i \in DOMAIN bs |-> IF bs[i].id = id THEN data ELSE bs[i]]

\* Variant: a successful update leaves the error that is shown
handleUpdateBookmark_keepError(c, call) ==
    IF call.response = Rejected
    THEN [c EXCEPT !.error = "Failed to update bookmark"]
    ELSE IF call.response.success
    THEN [c EXCEPT !.bookmarks =
                       replaceById(call.bookmarks, call.id,
                                   call.response.data[1])]
    ELSE [c EXCEPT !.error = call.response.error]

\* handleUpdateBookmark after its await
handleUpdateBookmark(c, call) ==
    IF call.response = Rejected
    THEN [c EXCEPT !.error = "Failed to update bookmark"]
    ELSE IF call.response.success
    THEN [c EXCEPT !.bookmarks =
                       replaceById(call.bookmarks, call.id,
                                   call.response.data[1]),
                   !.error = ""]
    ELSE [c EXCEPT !.error = call.response.error]

\* Variant: the card is removed from the cache whatever the outcome
handleDeleteBookmark_optimistic(c, call) ==
    LET newBookmarks == SelectSeq(call.bookmarks, LAMBDA b : b.id # call.id)
        pages == ceil(Len(newBookmarks), itemsPerPage)
    IN IF call.response = Rejected
       THEN [c EXCEPT !.bookmarks = newBookmarks,
                      !.error = "Failed to delete bookmark"]
       ELSE IF call.response.success
       THEN [c EXCEPT !.bookmarks = newBookmarks, !.error = "",
                      !.currentPage =
                          IF call.currentPage > pages /\ pages > 0
                          THEN pages ELSE @]
       ELSE [c EXCEPT !.bookmarks = newBookmarks,
                      !.error = call.response.error]

\* handleDeleteBookmark after its await
handleDeleteBookmark(c, call) ==
    IF call.response = Rejected
    THEN [c EXCEPT !.error = "Failed to delete bookmark"]
    ELSE IF call.response.success
    THEN LET newBookmarks ==
                 SelectSeq(call.bookmarks, LAMBDA b : b.id # call.id)
             pages == ceil(Len(newBookmarks), itemsPerPage)
         IN [c EXCEPT !.bookmarks = newBookmarks, !.error = "",
                      !.currentPage =
                          IF call.currentPage > pages /\ pages > 0
                          THEN pages ELSE @]
    ELSE [c EXCEPT !.error = call.response.error]

\* ------------------------------------------------------------------------
\* The client's forms: AddBookmarkForm.jsx and EditBookmarkModal (App.jsx)
\* ------------------------------------------------------------------------
\* formData: the four fields hold the text the inputs show
FormData(url, title, description, tags) ==
    [url |-> url, title |-> title, description |-> description, tags |-> tags]

\* newErrors: the message of each field, "" for a field without error
NoErrors == [url |-> "", title |-> "", description |-> "", tags |-> ""]

\* A form: the add form (kind "add"), or the edit modal opened on the
\* bookmark id (kind "edit"); validated: validateForm has run on this content;
\* fetching: the state behind the 'Fetching...' indicator of the add form
Form(kind, id, formData) ==
    [kind |-> kind, id |-> id, formData |-> formData, errors |-> NoErrors,
     validated |-> FALSE, fetching |-> FALSE]

\* The useState initial values of AddBookmarkForm
AddBookmarkForm == Form("add", 0, FormData(<<>>, <<>>, <<>>, <<>>))

\* tags.join(', ')
RECURSIVE joinTags(_)
joinTags(a) ==
    IF a = <<>> THEN <<>>
    ELSE IF Len(a) = 1 THEN a[1].s
    ELSE a[1].s \o <<",", " ">> \o joinTags(Tail(a))

\* The useState initial values of EditBookmarkModal, opened on a bookmark
EditBookmarkModal(bookmark) ==
    Form("edit", bookmark.id,
         FormData(bookmark.url.s, bookmark.title.s,
                  IF Falsy(bookmark.description) THEN <<>>
                  ELSE bookmark.description.s,
                  IF Falsy(bookmark.tags) THEN <<>>
                  ELSE joinTags(bookmark.tags.a)))

\* s.split(','), cur holding the characters of the part being read
RECURSIVE splitFrom(_, _)
splitFrom(s, cur) ==
    IF s = <<>> THEN <<cur>>
    ELSE IF Head(s) = "," THEN <<cur>> \o splitFrom(Tail(s), <<>>)
    ELSE splitFrom(Tail(s), Append(cur, Head(s)))

split(s) == splitFrom(s, <<>>)

\* formData.tags.split(',').map(t => t.trim()).filter(t => t)
validatedTags(tags) ==
    SelectSeq([k \in DOMAIN split(tags) |-> trim(split(tags)[k])],
              LAMBDA t : t # <<>>)

\* formData.tags.split(',').map(t => t.trim().toLowerCase()).filter(t => t)
submittedTags(tags) ==
    SelectSeq([k \in DOMAIN split(tags) |-> toLowerCase(trim(split(tags)[k]))],
              LAMBDA t : t # <<>>)

\* validateForm, the same in both forms: the newErrors it sets
validateForm(formData) ==
    [url |->
        IF trim(formData.url) = <<>> THEN "URL is required"
        ELSE IF ~isValidUrl(Str(formData.url)) THEN "Please enter a valid URL"
        ELSE "",
     title |->
        IF trim(formData.title) = <<>> THEN "Title is required"
        ELSE IF Len(formData.title) > MaxTitleLength
        THEN "Title must be max 200 characters"
        ELSE "",
     description |->
        IF formData.description # <<>>
           /\ Len(formData.description) > MaxDescriptionLength
        THEN "Description must be max 500 characters"
        ELSE "",
     tags |->
        IF formData.tags = <<>> THEN ""
        ELSE LET tagsArray == validatedTags(formData.tags)
             IN IF \E k \in DOMAIN tagsArray :
                       tagsArray[k] # toLowerCase(tagsArray[k])
                THEN "Tags must be lowercase"
                ELSE IF Len(tagsArray) > MaxTags THEN "Maximum 5 tags allowed"
                ELSE ""]

\* bookmarkData of handleSubmit, as JSON.stringify sends it (a property that
\* is undefined is left out)
bookmarkData(formData) ==
    Body(Str(formData.url), Str(formData.title),
         IF formData.description = <<>> THEN Undefined
         ELSE Str(formData.description),
         IF formData.tags = <<>> THEN Undefined
         ELSE Tags(submittedTags(formData.tags)),
         Undefined, Undefined)

\* Form contents
Blanks == <<" ", " ", " ">>

TagsWithBlankEntry ==
    <<"t", "e", "s", "t", ",", " ", ",", "c", "s", "s">>

SixTagsText == <<"a", ",", "b", ",", "c", ",", "d", ",", "e", ",", "f">>

\* Every combination of an empty, a blank, a broken and a valid content of
\* the four inputs
Forms ==
    { FormData(u, t, d, g) :
        u \in {<<>>, Blanks, NotAValidUrl, ExampleUrl},
        t \in {<<>>, Blanks, TestTitle, Repeat("a", MaxTitleLength + 1)},
        d \in {<<>>, TestDescription, Repeat("a", MaxDescriptionLength + 1)},
        g \in {<<>>, TagTest, TagUpper, TagsWithBlankEntry, SixTagsText} }

\* ------------------------------------------------------------------------
\* The state machine
\* ------------------------------------------------------------------------
Request(method, id, body) ==
    [method |-> method, id |-> id, body |-> body, tag |-> Undefined]

\* GET /bookmarks with the query value tag (Undefined: no tag parameter)
ListRequest(tag) == [Request("GET", 0, EmptyBody) EXCEPT !.tag = tag]

\* The server after module load; no browser has opened the client yet
Init ==
    /\ bookmarks = SeedBookmarks
    /\ nextId = Len(SeedBookmarks) + 1
    /\ clock = 0
    /\ req = Request("NONE", 0, EmptyBody)
    /\ res = [status |-> 0, success |-> TRUE, data |-> <<>>, error |-> ""]
    /\ deleted = {}
    /\ client = App
    /\ form = AddBookmarkForm
    /\ pending = {}
    /\ issued = 0
    /\ pagination = NoPagination

\* The ids a request names: 0, which uuidv4 never hands out; 3, the middle
\* record of the seed; and the identifier handed out last (the last seeded
\* record, later the record created last).
RequestIds == {0, 3, nextId - 1}

Ids(bs) == {bs[i].id : i \in DOMAIN bs}

\* The server handles one request: the effect of the route's handler on the
\* server's variables
ServePost(body) ==
    /\ LET r == postHandler(bookmarks, body, uuidv4, clock)
       IN /\ bookmarks' = r.bookmarks
          /\ res' = r.res
          /\ nextId' = IF r.res.status = 201 THEN nextId + 1 ELSE nextId
    /\ clock' = clock + 1
    /\ req' = Request("POST", 0, body)
    /\ UNCHANGED deleted

ServePut(id, body) ==
    /\ LET r == putHandler(bookmarks, id, body)
       IN /\ bookmarks' = r.bookmarks
          /\ res' = r.res
    /\ clock' = clock + 1
    /\ req' = Request("PUT", id, body)
    /\ UNCHANGED <<nextId, deleted>>

ServeDelete(id) ==
    /\ LET r == deleteHandler(bookmarks, id)
       IN /\ bookmarks' = r.bookmarks
          /\ res' = r.res
          /\ deleted' = IF r.res.status = 200 THEN deleted \cup {id} ELSE deleted
    /\ clock' = clock + 1
    /\ req' = Request("DELETE", id, EmptyBody)
    /\ UNCHANGED nextId

ServeGet(tag) ==
    /\ LET r == listHandler(bookmarks, tag)
       IN /\ bookmarks' = r.bookmarks
          /\ res' = r.res
    /\ clock' = clock + 1
    /\ req' = ListRequest(tag)
    /\ UNCHANGED <<nextId, deleted>>

\* A request sent to the API directly, by some HTTP client
Post(body) ==
    /\ clock < MaxRequests
    /\ ServePost(body)
    /\ UNCHANGED clientVars

Put(id, body) ==
    /\ clock < MaxRequests
    /\ ServePut(id, body)
    /\ UNCHANGED clientVars

Delete(id) ==
    /\ clock < MaxRequests
    /\ ServeDelete(id)
    /\ UNCHANGED clientVars

\* The tag query values: none; ?tag= ; a seeded tag as stored and in another
\* casing; the tag of the records the requests create
QueryTags == {Undefined, Str(<<>>), Str(TagReact), Str(TagUpper), Str(TagTest)}

Get(tag) ==
    /\ clock < MaxRequests
    /\ ServeGet(tag)
    /\ UNCHANGED clientVars

MetadataRequest(url, fetched, fault) ==
    [method |-> "METADATA", id |-> 0, body |-> EmptyBody, tag |-> Undefined,
     url |-> url, fetched |-> fetched, fault |-> fault]

ServeMetadata(url, fetched, fault) ==
    /\ res' = metadataHandler(url, fetched, fault)
    /\ clock' = clock + 1
    /\ req' = MetadataRequest(url, fetched, fault)
    /\ UNCHANGED <<bookmarks, nextId, deleted>>

Metadata(url, fetched, fault) ==
    /\ clock < MaxRequests
    /\ ServeMetadata(url, fetched, fault)
    /\ UNCHANGED clientVars

Next ==
    \/ \E tag \in QueryTags : Get(tag)
    \/ \E body \in Bodies : Post(body)
    \/ \E id \in RequestIds, body \in Bodies : Put(id, body)
    \/ \E id \in RequestIds : Delete(id)

Spec == Init /\ [][Next]_vars

\* The second specification: every route, with bodies that break the rules of
\* several fields, query values that are no strings, and the outcomes of the
\* external fetch
WideQueryTags == QueryTags \cup {Arr(<<Str(TagReact), Str(TagCss)>>)}

MetadataUrls == {Undefined, Str(NotAValidUrl), Str(ExampleUrl)}

NextWide ==
    \/ \E tag \in WideQueryTags : clock < MaxWideRequests /\ Get(tag)
    \/ \E url \in MetadataUrls, fetched \in FetchOutcomes, fault \in BOOLEAN :
           clock < MaxWideRequests /\ Metadata(url, fetched, fault)
    \/ \E body \in WideBodies : clock < MaxWideRequests /\ Post(body)
    \/ \E id \in RequestIds, body \in WideBodies :
           clock < MaxWideRequests /\ Put(id, body)
    \/ \E id \in RequestIds : clock < MaxWideRequests /\ Delete(id)

SpecWide == Init /\ [][NextWide]_vars

\* ------------------------------------------------------------------------
\* The client's steps
\* ------------------------------------------------------------------------
\* The calls one client issues
MaxCalls == 2

\* The outcomes of fetch(): the server answers, or the promise rejects
Outcomes == {"answered", "rejected"}

\* A handler of App is called and awaits its response.  The server handles
\* the request in the same step; the response arrives in a later step.
Await(kind, id, outcome, Serve) ==
    /\ issued < MaxCalls
    /\ IF outcome = "answered" THEN Serve ELSE UNCHANGED serverVars
    /\ pending' = pending \cup
           {Call(issued + 1, kind, id, client.bookmarks, client.currentPage,
                 IF outcome = "answered" THEN res' ELSE Rejected)}
    /\ issued' = issued + 1
    /\ UNCHANGED pagination

\* handleSubmit of the form the user works in: validateForm, then onAdd or
\* onUpdate with bookmarkData
HandleSubmit(outcome) ==
    LET errors == validateForm(form.formData)
    IN /\ form' = [form EXCEPT !.errors = errors, !.validated = TRUE]
       /\ IF errors # NoErrors
          THEN outcome = "answered" /\ UNCHANGED <<serverVars, pending, issued, pagination>>
          ELSE IF form.kind = "add"
          THEN Await("add", 0, outcome, ServePost(bookmarkData(form.formData)))
          ELSE Await("update", form.id, outcome,
                     ServePut(form.id, bookmarkData(form.formData)))
       /\ UNCHANGED client

\* handleChange, taken for the whole content of the add form at once
Change(formData) ==
    /\ form.kind = "add"
    /\ formData # form.formData
    /\ form' = [Form("add", 0, formData) EXCEPT !.fetching = form.fetching]
    /\ UNCHANGED <<serverVars, client, pending, issued, pagination>>

\* The url input of the add form loses the focus: handleUrlBlur up to its
\* await.  With a url and no title, a url that parses starts the metadata
\* call; one that does not parse ends in the catch and finally blocks
UrlBlur(fetched, fault, outcome) ==
    /\ form.kind = "add"
    /\ form.formData.url # <<>>
    /\ form.formData.title = <<>>
    /\ IF UrlParses(form.formData.url)
       THEN /\ Await("metadata", 0, outcome,
                     ServeMetadata(Str(form.formData.url), fetched, fault))
            /\ form' = [form EXCEPT !.fetching = TRUE]
       ELSE /\ fetched = FetchFailed /\ ~fault /\ outcome = "answered"
            /\ form' = [form EXCEPT !.fetching = FALSE]
            /\ UNCHANGED <<serverVars, pending, issued, pagination>>
    /\ UNCHANGED client

\* The delete button of a displayed card; confirmed is the answer to
\* window.confirm
DeleteBookmark(id, confirmed, outcome) ==
    /\ form.kind = "add"
    /\ id \in Ids(currentBookmarks(client))
    /\ IF confirmed
       THEN Await("delete", id, outcome, ServeDelete(id))
            /\ UNCHANGED <<client, form>>
       ELSE outcome = "answered" /\ UNCHANGED vars

\* A tag badge of a displayed card: handleTagClick
TagClick(tag, outcome) ==
    /\ form.kind = "add"
    /\ \E k \in DOMAIN currentBookmarks(client) :
          hasTag(currentBookmarks(client)[k], Str(tag))
    /\ Await("fetch", 0, outcome, ServeGet(Str(tag)))
    /\ client' = [client EXCEPT !.activeTag = tag]
    /\ UNCHANGED form

\* The Clear button, rendered while a tag is active: handleClearFilter
ClearFilter(outcome) ==
    /\ form.kind = "add"
    /\ client.activeTag # <<>>
    /\ Await("fetch", 0, outcome, ServeGet(Undefined))
    /\ client' = [client EXCEPT !.activeTag = <<>>]
    /\ UNCHANGED form

\* The edit button of a displayed card: setEditingBookmark(bookmark) renders
\* the modal over the page. form holds the form the user works in, so the
\* modal is opened while the add form is empty
Edit(id) ==
    /\ form = AddBookmarkForm
    /\ \E k \in DOMAIN currentBookmarks(client) :
          /\ currentBookmarks(client)[k].id = id
          /\ form' = EditBookmarkModal(currentBookmarks(client)[k])
    /\ UNCHANGED <<serverVars, client, pending, issued, pagination>>

\* handleChange of the modal, taken for the whole content at once
ChangeEdit(formData) ==
    /\ form.kind = "edit"
    /\ formData # form.formData
    /\ form' = Form("edit", form.id, formData)
    /\ UNCHANGED <<serverVars, client, pending, issued, pagination>>

\* The close button of the modal: setEditingBookmark(null)
Close ==
    /\ form.kind = "edit"
    /\ form' = AddBookmarkForm
    /\ UNCHANGED <<serverVars, client, pending, issued, pagination>>

\* The search input changes; the effect on searchQuery resets the page
Search(searchQuery) ==
    /\ searchQuery # client.searchQuery
    /\ client' = [client EXCEPT !.searchQuery = searchQuery, !.currentPage = 1]
    /\ UNCHANGED <<serverVars, form, pending, issued, pagination>>

\* A button of Pagination, rendered when there are several pages: a page
\* number, Prev or Next
PageChange(page) ==
    /\ totalPages(client) > 1
    /\ page \in 1..totalPages(client)
    /\ page # client.currentPage
    /\ client' = [client EXCEPT !.currentPage = page]
    /\ UNCHANGED <<serverVars, form, pending, issued, pagination>>

\* The response of a call arrives and the handler runs to its end.  A
\* successful add resets the add form; a successful update closes the modal.
Complete(call) ==
    /\ call \in pending
    /\ pending' = pending \ {call}
    /\ client' = CASE call.kind = "fetch" -> fetchBookmarks(client, call)
                   [] call.kind = "add" -> handleAddBookmark(client, call)
                   [] call.kind = "update" -> handleUpdateBookmark(client, call)
                   [] call.kind = "delete" -> handleDeleteBookmark(client, call)
                   [] call.kind = "metadata" -> client
    /\ form' = IF call.kind = "metadata" THEN handleUrlBlur(form, call)
               ELSE IF call.response.success
                       /\ \/ call.kind = "add" /\ form.kind = "add"
                          \/ call.kind = "update" /\ form.kind = "edit"
               THEN [AddBookmarkForm EXCEPT !.fetching = form.fetching]
               ELSE form
    /\ UNCHANGED <<serverVars, issued, pagination>>

\* ------------------------------------------------------------------------
\* The third specification: one client, alone with the server
\* ------------------------------------------------------------------------
ValidForm == FormData(ExampleUrl, TestTitle, TestDescription, TagTest)

\* The collection after five creates of the valid form and one of the same
\* form with an http url
ElevenBookmarks ==
    SeedBookmarks \o
    [k \in 1..6 |->
        newBookmark(bookmarkData(IF k = 6
                                 THEN [ValidForm EXCEPT !.url = HttpExampleUrl]
                                 ELSE ValidForm),
                    Len(SeedBookmarks) + k, k - 1)]

TypedForms == {ValidForm}

\* The collection holds eleven bookmarks; the client has mounted and its
\* first fetchBookmarks() awaits the response the server has sent
InitClient ==
    /\ bookmarks = ElevenBookmarks
    /\ nextId = Len(ElevenBookmarks) + 1
    /\ clock = 7
    /\ req = ListRequest(Undefined)
    /\ res = SuccessList(ElevenBookmarks)
    /\ deleted = {}
    /\ client = App
    /\ form = AddBookmarkForm
    /\ pending = {Call(0, "fetch", 0, <<>>, 1, SuccessList(ElevenBookmarks))}
    /\ issued = 0
    /\ pagination = NoPagination

\* The cards whose delete button is used: the first and the last displayed
DeleteIds ==
    LET cards == currentBookmarks(client)
    IN {cards[k].id : k \in {1, Len(cards)} \cap DOMAIN cards}

NextClient ==
    \/ \E call \in pending : Complete(call)
    \/ \E outcome \in Outcomes : HandleSubmit(outcome)
    \/ \E formData \in TypedForms : Change(formData)
    \/ \E id \in DeleteIds, confirmed \in BOOLEAN, outcome \in Outcomes :
           DeleteBookmark(id, confirmed, outcome)
    \/ \E searchQuery \in SearchQueries : Search(searchQuery)
    \/ \E page \in 1..2 : PageChange(page)

SpecClient == InitClient /\ [][NextClient]_vars

\* ------------------------------------------------------------------------
\* The client on the seeded collection: tag filter, edit modal, add form,
\* delete
\* ------------------------------------------------------------------------
\* The tag badge that is clicked
ClickedTags == {TagFrontend}

\* The card whose edit button is used: the first displayed
EditIds ==
    {currentBookmarks(client)[k].id : k \in {1} \cap DOMAIN currentBookmarks(client)}

\* What the user changes in the modal: the tags
EditedForms == {[form.formData EXCEPT !.tags = TagTest]}

\* The client has mounted on the seeded collection and its first
\* fetchBookmarks() awaits the response the server has sent
InitApp ==
    /\ bookmarks = SeedBookmarks
    /\ nextId = Len(SeedBookmarks) + 1
    /\ clock = 1
    /\ req = ListRequest(Undefined)
    /\ res = SuccessList(SeedBookmarks)
    /\ deleted = {}
    /\ client = App
    /\ form = AddBookmarkForm
    /\ pending = {Call(0, "fetch", 0, <<>>, 1, SuccessList(SeedBookmarks))}
    /\ issued = 0
    /\ pagination = NoPagination

NextApp ==
    \/ \E call \in pending : Complete(call)
    \/ \E tag \in ClickedTags, outcome \in Outcomes : TagClick(tag, outcome)
    \/ \E outcome \in Outcomes : ClearFilter(outcome)
    \/ \E id \in EditIds : Edit(id)
    \/ \E formData \in EditedForms : ChangeEdit(formData)
    \/ Close
    \/ \E formData \in TypedForms : Change(formData)
    \/ \E outcome \in Outcomes : HandleSubmit(outcome)
    \/ \E id \in DeleteIds, confirmed \in BOOLEAN, outcome \in Outcomes :
           DeleteBookmark(id, confirmed, outcome)

SpecApp == InitApp /\ [][NextApp]_vars

\* ------------------------------------------------------------------------
\* The fourth specification: the forms, filled in, are submitted
\* ------------------------------------------------------------------------
\* The client shows the seeded collection; the user has filled in the add
\* form, or the edit modal opened on the third bookmark
InitForm ==
    /\ bookmarks = SeedBookmarks
    /\ nextId = Len(SeedBookmarks) + 1
    /\ clock = 1
    /\ req = ListRequest(Undefined)
    /\ res = SuccessList(SeedBookmarks)
    /\ deleted = {}
    /\ client = [App EXCEPT !.bookmarks = SeedBookmarks]
    /\ form \in {Form("add", 0, formData) : formData \in Forms}
                \cup {Form("edit", 3, formData) : formData \in Forms}
    /\ pending = {}
    /\ issued = 0
    /\ pagination = NoPagination

NextForm ==
    \/ \E outcome \in Outcomes : HandleSubmit(outcome)
    \/ \E call \in pending : Complete(call)

SpecForm == InitForm /\ [][NextForm]_vars

\* ------------------------------------------------------------------------
\* The fifth specification: the title auto-fill of the add form
\* ------------------------------------------------------------------------
\* What the user types into the url and title inputs
BlurForms ==
    {FormData(url, title, <<>>, <<>>) :
         url \in {<<>>, NotAValidUrl, ExampleUrl}, title \in {<<>>, TestTitle}}

NextBlur ==
    \/ \E formData \in BlurForms : Change(formData)
    \/ \E fetched \in FetchOutcomes, fault \in BOOLEAN,
          outcome \in Outcomes : UrlBlur(fetched, fault, outcome)
    \/ \E call \in pending : Complete(call)

SpecBlur == InitApp /\ [][NextBlur]_vars

\* ------------------------------------------------------------------------
\* The sixth specification: Pagination, for every page of every page count
\* ------------------------------------------------------------------------
MaxPages == 14

\* App starts on page 1; Pagination is rendered when there are several pages
InitPages ==
    /\ bookmarks = SeedBookmarks
    /\ nextId = Len(SeedBookmarks) + 1
    /\ clock = 0
    /\ req = Request("NONE", 0, EmptyBody)
    /\ res = [status |-> 0, success |-> TRUE, data |-> <<>>, error |-> ""]
    /\ deleted = {}
    /\ client = App
    /\ form = AddBookmarkForm
    /\ pending = {}
    /\ issued = 0
    /\ \E total \in 2..MaxPages : pagination = Pagination(1, total, <<>>)

\* Pagination renders: const pageNumbers = getPageNumbers()
Render ==
    /\ pagination.pageNumbers = <<>>
    /\ pagination' =
           [pagination EXCEPT !.pageNumbers =
                getPageNumbers(pagination.currentPage, pagination.totalPages)]
    /\ UNCHANGED <<serverVars, client, form, pending, issued>>

\* A page button is clicked: onPageChange(page), and Pagination renders with
\* the new currentPage
PageClick(k) ==
    /\ k \in DOMAIN pagination.pageNumbers
    /\ pagination.pageNumbers[k] # Ellipsis
    /\ pagination.pageNumbers[k].n # pagination.currentPage
    /\ pagination' =
           Pagination(pagination.pageNumbers[k].n, pagination.totalPages,
                      getPageNumbers(pagination.pageNumbers[k].n,
                                     pagination.totalPages))
    /\ UNCHANGED <<serverVars, client, form, pending, issued>>

NextPages ==
    \/ Render
    \/ \E k \in 1..7 : PageClick(k)

SpecPages == InitPages /\ [][NextPages]_vars

\* ------------------------------------------------------------------------
\* Properties
\* ------------------------------------------------------------------------
Accepted == res.status \in {200, 201}

\* The stored record the last response returned
Returned(i) == res.data # <<>> /\ bookmarks[i].id = res.data[1].id

\* C1: in every state reached from the seed by POST, PUT and DELETE
\* requests, every stored bookmark that has tags has at most 5 of them and
\* every tag is a string equal to its own lowercase form.
C1_TagsAtMostFiveLowercase ==
    \A i \in DOMAIN bookmarks :
        LET tags == bookmarks[i].tags
        IN Supplied(tags) =>
              /\ IsArray(tags)
              /\ Len(tags.a) <= 5
              /\ \A k \in DOMAIN tags.a :
                    /\ tags.a[k].t = "string"
                    /\ tags.a[k].s = toLowerCase(tags.a[k].s)

\* A POST or PUT that sent tags was accepted and its tags are stored.
C1_Witness ==
    /\ req.method \in {"POST", "PUT"}
    /\ Accepted
    /\ IsArray(req.body.tags)
    /\ \E i \in DOMAIN bookmarks : Returned(i) /\ bookmarks[i].tags = req.body.tags

\* C2: every stored bookmark has a url that is a non-empty string parsing
\* as an absolute URL and a title that is a non-empty string of at most 200
\* characters.
C2_UrlAndTitleValid ==
    \A i \in DOMAIN bookmarks :
        LET b == bookmarks[i]
        IN /\ b.url.t = "string"
           /\ b.url.s # <<>>
           /\ UrlParses(b.url.s)
           /\ b.title.t = "string"
           /\ b.title.s # <<>>
           /\ Len(b.title.s) <= 200

\* C3: a POST or PUT answered 400 leaves the collection exactly as it was.
C3_RejectedLeavesCollection ==
    [][(req'.method \in {"POST", "PUT"} /\ res'.status = 400)
          => bookmarks' = bookmarks]_vars

\* A PUT on a stored bookmark was answered 400 although part of its body
\* was acceptable.
C3_Witness ==
    /\ req.method = "PUT"
    /\ res.status = 400
    /\ isValidUrl(req.body.url)
    /\ findIndex(bookmarks, req.id) # 0

Fields == {"url", "title", "description", "tags"}

\* C4: a PUT on a stored id with any subset of the four fields, each valid,
\* is accepted; an accepted PUT gives the record the body's value for every
\* field the body supplies, keeps every other field of the record, and
\* leaves every other record and the order of the collection unchanged.
C4_PartialUpdate ==
    [][/\ (req'.method = "PUT" /\ req'.id \in Ids(bookmarks)
            /\ req'.body \in SubsetBodies) => res'.status = 200
       /\ (req'.method = "PUT" /\ res'.status = 200)
          => LET k == findIndex(bookmarks, req'.id)
             IN /\ k # 0
                /\ DOMAIN bookmarks' = DOMAIN bookmarks
                /\ \A i \in DOMAIN bookmarks : i # k => bookmarks'[i] = bookmarks[i]
                /\ \A f \in Fields :
                      bookmarks'[k][f] = IF Supplied(req'.body[f]) THEN req'.body[f]
                                         ELSE bookmarks[k][f]
                /\ bookmarks'[k].id = bookmarks[k].id
                /\ bookmarks'[k].createdAt = bookmarks[k].createdAt]_vars

\* An accepted PUT that supplied some fields and not others: the record has
\* the body's title and still has a description the body did not carry.
C4_Witness ==
    /\ req.method = "PUT"
    /\ res.status = 200
    /\ Supplied(req.body.title)
    /\ ~Supplied(req.body.description)
    /\ \E i \in DOMAIN bookmarks :
          /\ Returned(i)
          /\ bookmarks[i].title = req.body.title
          /\ bookmarks[i].description.t = "string"

\* C5: from step to step a bookmark keeps its id and its createdAt until a
\* DELETE removes it; a PUT, also one whose body carries id or createdAt,
\* leaves the id and createdAt at every position of the collection.
C5_IdAndCreatedAtImmutable ==
    [][/\ \A i \in DOMAIN bookmarks :
            \/ /\ req'.method = "DELETE"
               /\ res'.status = 200
               /\ req'.id = bookmarks[i].id
            \/ \E j \in DOMAIN bookmarks' :
                  /\ bookmarks'[j].id = bookmarks[i].id
                  /\ bookmarks'[j].createdAt = bookmarks[i].createdAt
       /\ req'.method = "PUT" =>
            /\ DOMAIN bookmarks' = DOMAIN bookmarks
            /\ \A i \in DOMAIN bookmarks :
                  /\ bookmarks'[i].id = bookmarks[i].id
                  /\ bookmarks'[i].createdAt = bookmarks[i].createdAt]_vars

\* An accepted PUT whose body carried another id and another createdAt
\* than the record it addressed.
C5_Witness ==
    /\ req.method = "PUT"
    /\ res.status = 200
    /\ Supplied(req.body.id)
    /\ Supplied(req.body.createdAt)
    /\ \E i \in DOMAIN bookmarks :
          /\ Returned(i)
          /\ bookmarks[i].id = req.id
          /\ bookmarks[i].id # req.body.id.n
          /\ bookmarks[i].createdAt # req.body.createdAt.n

\* C6: a PUT whose id matches no stored bookmark is answered 404 "Bookmark
\* not found", whatever its body, and leaves the collection unchanged.
C6_UnknownIdNotFound ==
    [][(req'.method = "PUT" /\ req'.id \notin Ids(bookmarks))
          => /\ res'.status = 404
             /\ res'.success = FALSE
             /\ res'.error = "Bookmark not found"
             /\ bookmarks' = bookmarks]_vars

\* A PUT with a body that fails validation was answered 404.
C6_Witness ==
    /\ req.method = "PUT"
    /\ res.status = 404
    /\ putErrors(req.body) # <<>>

\* C7: a DELETE of a stored id returns the record as it was stored, removes
\* that record and no other and keeps the others in order; a DELETE of an
\* unknown id is answered 404 and changes nothing.
C7_Delete ==
    [][req'.method = "DELETE"
          => IF req'.id \in Ids(bookmarks)
             THEN LET k == findIndex(bookmarks, req'.id)
                  IN /\ res'.status = 200
                     /\ res'.data = <<bookmarks[k]>>
                     /\ Len(bookmarks') = Len(bookmarks) - 1
                     /\ \A i \in 1..(k - 1) : bookmarks'[i] = bookmarks[i]
                     /\ \A i \in (k + 1)..Len(bookmarks) : bookmarks'[i - 1] = bookmarks[i]
                     /\ req'.id \notin Ids(bookmarks')
             ELSE /\ res'.status = 404
                  /\ bookmarks' = bookmarks]_vars

\* A DELETE removed a record that had records before and after it.
C7_Witness ==
    /\ req.method = "DELETE"
    /\ res.status = 200
    /\ \E i \in DOMAIN bookmarks :
          /\ i < Len(bookmarks)
          /\ bookmarks[i].id < req.id
          /\ bookmarks[i + 1].id > req.id

\* C8: once a DELETE of an id has succeeded, no state holds a record with
\* that id, and every later PUT or DELETE of that id is answered 404.
C8_DeletionIsFinal ==
    /\ [](\A id \in deleted : id \notin Ids(bookmarks))
    /\ [][(req'.method \in {"PUT", "DELETE"} /\ req'.id \in deleted)
             => res'.status = 404]_vars

\* After a successful DELETE, a PUT of the same id was answered 404.
C8_Witness ==
    /\ req.method = "PUT"
    /\ req.id \in deleted
    /\ res.status = 404

\* JavaScript's value || undefined
OrUndefined(v) == IF Falsy(v) THEN Undefined ELSE v

\* A payload with a valid url and title and an acceptable description and
\* tags, where it has them
ValidPayloads ==
    {b \in SubsetBodies : Supplied(b.url) /\ Supplied(b.title)}
    \cup {[FullBody EXCEPT !.description = Str(<<>>)]}

\* C9 as stated: a POST with a valid payload is answered 201, and a POST
\* answered 201 appends exactly one record to the unchanged collection; its
\* url, title, description and tags equal the payload's, its id and
\* createdAt are generated, and it is the 201 body.
C9_CreateStoresPayload ==
    [][/\ (req'.method = "POST" /\ req'.body \in ValidPayloads)
            => res'.status = 201
       /\ (req'.method = "POST" /\ res'.status = 201)
          => LET new == bookmarks'[Len(bookmarks')]
             IN /\ bookmarks' = Append(bookmarks, new)
                /\ \A f \in Fields : new[f] = req'.body[f]
                /\ new.id \notin Ids(bookmarks)
                /\ new.createdAt = clock
                /\ res'.data = <<new>>]_vars

\* C9 amended: as above, but the record's description and tags are the
\* payload's only when these are truthy; a missing, null or empty
\* description, and missing or null tags, are stored as absent.
C9_CreateStoresNormalisedPayload ==
    [][/\ (req'.method = "POST" /\ req'.body \in ValidPayloads)
            => res'.status = 201
       /\ (req'.method = "POST" /\ res'.status = 201)
          => LET new == bookmarks'[Len(bookmarks')]
             IN /\ bookmarks' = Append(bookmarks, new)
                /\ new.url = req'.body.url
                /\ new.title = req'.body.title
                /\ new.description = OrUndefined(req'.body.description)
                /\ new.tags = OrUndefined(req'.body.tags)
                /\ new.id \notin Ids(bookmarks)
                /\ new.createdAt = clock
                /\ res'.data = <<new>>]_vars

\* A POST with an empty description was accepted into a collection that
\* already held records; the new record is the last one.
C9_Witness ==
    /\ req.method = "POST"
    /\ res.status = 201
    /\ req.body.description = Str(<<>>)
    /\ Len(bookmarks) > 1
    /\ Returned(Len(bookmarks))

\* C10: no two stored records have the same id.
C10_UniqueIds ==
    \A i, j \in DOMAIN bookmarks : i # j => bookmarks[i].id # bookmarks[j].id

\* A record was created after another one had been deleted.
C10_Witness ==
    /\ req.method = "POST"
    /\ res.status = 201
    /\ deleted # {}
    /\ Len(bookmarks) > 1

\* The records of bs whose tags are an array holding the string t, in the
\* order of bs
WithTag(bs, t) ==
    SelectSeq(bs, LAMBDA b : IsArray(b.tags) /\ Str(t) \in Range(b.tags.a))

\* C11 as stated: for every tag filter value t, GET /bookmarks?tag=t answers
\* 200 with exactly the stored records whose tags contain the lowercase form
\* of t, in collection order; with no tag parameter it answers the whole
\* collection.  (Violated by ?tag= : the empty value is falsy, so the whole
\* collection is returned although no record carries the empty tag.)
C11_ListFiltersEveryValue ==
    req.method = "GET" =>
        /\ res.status = 200
        /\ res.data = IF req.tag = Undefined THEN bookmarks
                      ELSE WithTag(bookmarks, toLowerCase(req.tag.s))

\* C11 (amended): for every non-empty tag filter value t, GET /bookmarks?tag=t
\* answers 200 with exactly the stored records whose tags contain the
\* lowercase form of t, in collection order, so that t and any other casing of
\* t give the same result and records without tags are never returned; with
\* no tag parameter, or an empty one, it answers the whole collection in
\* collection order.
C11_ListFilters ==
    req.method = "GET" =>
        /\ res.status = 200
        /\ res.data = IF Falsy(req.tag) THEN bookmarks
                      ELSE WithTag(bookmarks, toLowerCase(req.tag.s))

\* A filter given in another casing than the stored tag selected some but not
\* all records, while the collection holds a record without tags
C11_Witness ==
    /\ req.method = "GET"
    /\ req.tag = Str(TagUpper)
    /\ res.data # <<>>
    /\ Len(res.data) < Len(bookmarks)
    /\ \E i \in DOMAIN bookmarks : bookmarks[i].tags = Undefined

\* C12: a list request, filtered or not, never changes the collection, and a
\* list request that directly follows a list request with the same filter
\* gets the identical response.
C12_ListHasNoSideEffects ==
    [][req'.method = "GET" =>
         /\ bookmarks' = bookmarks
         /\ (req.method = "GET" /\ req.tag = req'.tag => res' = res)]_vars

\* A filtered list request, the second request handled, returned a proper
\* non-empty part of the collection
C12_Witness ==
    /\ req.method = "GET"
    /\ clock = 2
    /\ ~Falsy(req.tag)
    /\ res.data # <<>>
    /\ Len(res.data) < Len(bookmarks)

\* The rules of the data model a request body breaks.  A create needs url and
\* title; an update checks the fields the body supplies.
Checked(v) == IF req.method = "POST" THEN ~Falsy(v) ELSE Supplied(v)

UrlBroken ==
    IF req.method = "POST"
    THEN Falsy(req.body.url) \/ ~isValidUrl(req.body.url)
    ELSE Supplied(req.body.url) /\ ~isValidUrl(req.body.url)

TitleBroken ==
    /\ req.method = "POST" \/ Supplied(req.body.title)
    /\ Falsy(req.body.title) \/ LengthGt(req.body.title, MaxTitleLength)

DescriptionBroken ==
    /\ ~Falsy(req.body.description)
    /\ LengthGt(req.body.description, MaxDescriptionLength)

SomeTagNotLowercase(a) ==
    \E k \in DOMAIN a : a[k].t = "string" /\ a[k].s # toLowerCase(a[k].s)

TagsBroken ==
    /\ Checked(req.body.tags)
    /\ \/ ~IsArray(req.body.tags)
       \/ Len(req.body.tags.a) > MaxTags
       \/ SomeTagNotLowercase(req.body.tags.a)

UrlMessages == {"URL is required", "URL must be valid"}

TitleMessages == {"Title is required", "Title must be max 200 characters"}

DescriptionMessages == {"Description must be max 500 characters"}

TagsMessages ==
    {"Tags must be an array", "Maximum 5 tags allowed", "Tags must be lowercase"}

\* The one-message reports of a field: one of its messages when its rule is
\* broken, nothing otherwise
FieldMessages(broken, messages) ==
    IF broken THEN {<<m>> : m \in messages} ELSE {<<>>}

\* The reports of url, title and description, in this order
OtherFieldsReports ==
    { u \o t \o d :
        u \in FieldMessages(UrlBroken, UrlMessages),
        t \in FieldMessages(TitleBroken, TitleMessages),
        d \in FieldMessages(DescriptionBroken, DescriptionMessages) }

Validated ==
    /\ req.method \in {"POST", "PUT"}
    /\ res.status \notin {404, 500}

\* C13: a POST or PUT body that breaks the rules of some fields is answered
\* 400, and the error string is one message for each field whose rule is
\* broken, in the order url, title, description, tags, joined by ', '.
C13_EveryBrokenFieldReported ==
    Validated /\ (UrlBroken \/ TitleBroken \/ DescriptionBroken \/ TagsBroken)
    => /\ res.status = 400
       /\ \E o \in OtherFieldsReports,
             g \in FieldMessages(TagsBroken, TagsMessages) :
              res.error = join(o \o g)

\* A create whose url, title, description and tags all break their rule
C13_Witness ==
    /\ req.method = "POST"
    /\ res.status = 400
    /\ UrlBroken /\ TitleBroken /\ DescriptionBroken /\ TagsBroken

\* The one tags message of a body whose tags break a rule
TagsMessage(tags) ==
    IF ~IsArray(tags) THEN "Tags must be an array"
    ELSE IF Len(tags.a) > MaxTags THEN "Maximum 5 tags allowed"
    ELSE "Tags must be lowercase"

\* C14: the error string of a 400 answer to a POST or PUT ends in exactly
\* one tags message when the tags break a rule, and holds none otherwise:
\* 'Tags must be an array' for tags that are no array, else 'Maximum 5 tags
\* allowed' for more than 5 tags (uppercase or not), else 'Tags must be
\* lowercase'.
C14_OneTagsMessage ==
    Validated /\ res.status = 400
    => \E o \in OtherFieldsReports :
          res.error = join(o \o (IF TagsBroken
                                 THEN <<TagsMessage(req.body.tags)>>
                                 ELSE <<>>))

\* More than 5 tags, one of them uppercase, were reported as too many only
C14_Witness ==
    /\ req.method \in {"POST", "PUT"}
    /\ req.body.tags = SixTagsUpper
    /\ res.status = 400
    /\ res.error = "Maximum 5 tags allowed"

\* C15: for a well-formed url, a metadata request whose external fetch is
\* rejected (network error, timeout) or whose page has no title is answered
\* 200 with success true and data.title null.  (Violated: the route answers
\* the placeholder 'Unable to fetch title'.)
C15_FailedFetchGivesNullTitle ==
    /\ req.method = "METADATA"
    /\ ~req.fault
    /\ ~Falsy(req.url) /\ isValidUrl(req.url)
    /\ req.fetched.kind = "rejected" \/ req.fetched.title = Undefined
    => /\ res.status = 200
       /\ res.success
       /\ res.data[1].title = Null

\* tags.some(tag => tag !== tag.toLowerCase()) reaches an element that is no
\* string: the tags are an array of at most 5 elements, and every element
\* before the first non-string one is a lowercase string
TagsFault(tags) ==
    /\ IsArray(tags)
    /\ Len(tags.a) <= MaxTags
    /\ \E k \in DOMAIN tags.a :
          /\ tags.a[k].t # "string"
          /\ \A j \in 1..(k - 1) :
                tags.a[j].t = "string" /\ tags.a[j].s = toLowerCase(tags.a[j].s)

\* The request handled by this step hits a fault in its handler
Faulted(method) ==
    /\ req'.method = method
    /\ CASE method = "GET" ->
              /\ req'.tag.t = "array"
              /\ \E i \in DOMAIN bookmarks : ~Falsy(bookmarks[i].tags)
         [] method = "METADATA" -> req'.fault
         [] method = "POST" -> TagsFault(req'.body.tags)
         [] method = "PUT" ->
              req'.id \in Ids(bookmarks) /\ TagsFault(req'.body.tags)

InternalServerError(error) ==
    /\ res' = Failure(500, error)
    /\ bookmarks' = bookmarks

C17_OptionalFieldsNeverNull ==
    /\ \A i \in DOMAIN bookmarks :
          bookmarks[i].description # Null /\ bookmarks[i].tags # Null
    /\ req.method \in {"POST", "PUT"} /\ Accepted
       => res.data[1].description # Null /\ res.data[1].tags # Null
    /\ /\ req.method = "POST" /\ Accepted
       /\ req.body.description = Undefined /\ req.body.tags = Undefined
       => LET created == bookmarks[Len(bookmarks)]
          IN created.description = Undefined /\ created.tags = Undefined

\* The response of this call arrives in this step, and it reports success
Succeeds(call, kind) ==
    /\ call.kind = kind
    /\ call.response.success
    /\ call \notin pending'

\* Nothing the handler closed over has changed since the call
Fresh(call) ==
    /\ call.bookmarks = client.bookmarks
    /\ call.currentPage = client.currentPage

\* C19: after a successful delete, issued from the cache and the page still
\* shown when the response arrives, the cache does not hold the deleted id,
\* and if the page that was shown has no item left in the search-filtered
\* view, the current page is the last page of that view that has items.
\* (Violated while a search string is active: the page is adjusted to the
\* page count of the unfiltered cache.)
C19_DeleteMovesToLastPage ==
    [][\A call \in pending :
         Succeeds(call, "delete") /\ Fresh(call) =>
            /\ call.id \notin Ids(client'.bookmarks)
            /\ LET shown == client.currentPage
                   left == Len(filteredBookmarks(client'))
               IN (shown - 1) * itemsPerPage >= left /\ left > 0
                  => client'.currentPage = totalPages(client')]_vars

\* The response of this call arrives in this step, and it reports a failure
Fails(call, kind) ==
    /\ call.kind = kind
    /\ ~call.response.success
    /\ call \notin pending'

ServerAccepts(f) ==
    LET body == bookmarkData(f.formData)
    IN IF f.kind = "add"
       THEN postErrors(body) = <<>> /\ ~postThrows(body)
       ELSE putErrors(body) = <<>> /\ ~putThrows(body)

\* C18: for every content of the add form and of the edit modal,
\* validateForm accepts the form if and only if the server's validation
\* accepts the payload the form submits.  (Violated: a title of blanks and
\* an uppercase tag are refused by validateForm, while the server accepts
\* the payload.)
C18_ClientValidationIsServerValidation ==
    form.validated => (form.errors = NoErrors <=> ServerAccepts(form))

\* The message of the catch block of each handler
FailedTo(kind) ==
    CASE kind = "fetch" -> "Failed to fetch bookmarks"
      [] kind = "add" -> "Failed to add bookmark"
      [] kind = "update" -> "Failed to update bookmark"
      [] kind = "delete" -> "Failed to delete bookmark"

\* What the call that completes leaves in the error state
FailureMessage(call) ==
    IF call.response = Rejected THEN FailedTo(call.kind)
    ELSE call.response.error

\* C21: whenever a fetch, create, update or delete call completes, the error
\* state becomes empty if the call succeeded and becomes that call's failure
\* message if it failed (the error of the response, or the handler's own
\* message on a network failure), whatever error was shown before.
C21_ErrorReflectsLastCompletedCall ==
    [][\A call \in pending :
          call \notin pending' =>
              client'.error = IF call.response.success THEN ""
                              ELSE FailureMessage(call)]_vars

\* Two calls have completed, the server refused one of them, and the error
\* shown is the error of that response
C21_Witness ==
    /\ pending = {}
    /\ issued = 2
    /\ res.status = 404
    /\ client.error = "Bookmark not found"

\* C22: the cache changes only in a step in which a successful response is
\* processed; a user action, a pending request, a failed request and a
\* declined confirmation leave it as it was.
C22_CacheChangesOnSuccessOnly ==
    [][client'.bookmarks # client.bookmarks =>
          \E call \in pending :
              call \notin pending' /\ call.response.success]_vars

\* The server has removed a record and has answered, the call is pending,
\* and the cache still holds the record
C22_Witness ==
    \E call \in pending :
        /\ call.kind = "delete"
        /\ call.response.success
        /\ call.id \in Ids(client.bookmarks)
        /\ call.id \notin Ids(bookmarks)

\* C23: when the response of a list fetch arrives and is successful, the
\* cache becomes the data of that response, whatever was issued before or
\* after it: of overlapping fetches the one that arrives last decides.
C23_LastArrivedFetchDecides ==
    [][\A call \in pending :
          Succeeds(call, "fetch") =>
              client'.bookmarks = call.response.data]_vars

\* The tag was clicked and then cleared, the unfiltered response arrived
\* first and the filtered one last: no tag is active and the cache is the
\* filtered list
C23_Witness ==
    /\ pending = {}
    /\ client.activeTag = <<>>
    /\ bookmarks = SeedBookmarks
    /\ client.bookmarks = filterByTag(SeedBookmarks, Str(TagFrontend))
    /\ client.bookmarks # SeedBookmarks

\* C24: whenever no request is pending, the current page p satisfies
\* 1 <= p <= max(1, ceil(n / 9)), n being the number of cached bookmarks that
\* match the search string.  (Violated: after a delete under an active
\* search the page stays behind the last page of the view.)
C24_PageWithinView ==
    pending = {} =>
        /\ 1 <= client.currentPage
        /\ client.currentPage <=
               IF totalPages(client) > 1 THEN totalPages(client) ELSE 1

\* C25: whenever no request is outstanding, the ids of the client's cache
\* are the ids of the server's collection.  (Violated: a response is applied
\* to the cache the handler was called with, so the second of two
\* overlapping calls undoes what the first one did to the cache.)
C25_CacheMirrorsServer ==
    pending = {} => Ids(client.bookmarks) = Ids(bookmarks)

\* C26: whenever a tag filter is active and no request is pending, every
\* bookmark of the cache has the active tag.  (Violated: a record created
\* while the filter is active is put into the cache whatever its tags are.)
C26_CacheHasActiveTag ==
    (pending = {} /\ client.activeTag # <<>>) =>
        \A k \in DOMAIN client.bookmarks :
            hasTag(client.bookmarks[k], Str(client.activeTag))

\* The server has accepted the update the modal submitted; the modal still
\* shows what was submitted
Submitted(call) ==
    /\ call.kind = "update"
    /\ call.response.success
    /\ form.kind = "edit"
    /\ form.validated
    /\ form.id = call.id

\* C27: after a successful submit of the edit modal the stored bookmark has
\* the url and title the form showed, the description the form showed or
\* none if the field was empty, and the tags the form listed or none if the
\* field was empty.  (Violated: an emptied field is left out of the request
\* and the stored value stays.)
C27_StoredIsWhatTheModalShowed ==
    \A call \in pending :
        Submitted(call) =>
            \A i \in DOMAIN bookmarks :
                bookmarks[i].id = call.id =>
                    /\ bookmarks[i].url = Str(form.formData.url)
                    /\ bookmarks[i].title = Str(form.formData.title)
                    /\ IF form.formData.description = <<>>
                       THEN Falsy(bookmarks[i].description)
                       ELSE bookmarks[i].description =
                                Str(form.formData.description)
                    /\ IF form.formData.tags = <<>>
                       THEN \/ Falsy(bookmarks[i].tags)
                            \/ bookmarks[i].tags = Tags(<<>>)
                       ELSE bookmarks[i].tags =
                                Tags(submittedTags(form.formData.tags))

\* The response of a metadata call is processed in this step
Arrives(call) ==
    /\ call.kind = "metadata"
    /\ call \notin pending'

\* The call brings no title of the page: it failed, or it is the call of the
\* last request the server handled and the fetch of the page gave no title
NoTitleExtracted(call) ==
    \/ ~call.response.success
    \/ /\ call.nr = issued
       /\ req.method = "METADATA"
       /\ fetchMetadata(req.fetched) = Null

\* C28: when the metadata call fails or the page gives no title, the
\* response leaves the title field as it is, empty if nothing was typed.
\* (Violated: the route's placeholder text is filled in.)
C28_AutoFillSetsExtractedTitleOnly ==
    [][\A call \in pending :
          (Arrives(call) /\ NoTitleExtracted(call)) =>
              form'.formData.title = form.formData.title]_vars

\* C29: when the metadata response arrives, a title field that is not empty
\* keeps its text, and fetching is false afterwards.  (Violated: the title
\* typed while the call was pending is replaced.)
C29_AutoFillKeepsTypedTitle ==
    [][\A call \in pending :
          Arrives(call) =>
              /\ form.formData.title # <<>> =>
                     form'.formData.title = form.formData.title
              /\ ~form'.fetching]_vars

\* The positions of pageNumbers that hold a page button
Buttons == {k \in DOMAIN pagination.pageNumbers :
               pagination.pageNumbers[k] # Ellipsis}

\* C30: for totalPages >= 2 and 1 <= currentPage <= totalPages, the page
\* buttons getPageNumbers produces are strictly increasing numbers within
\* 1..totalPages, they include page 1, the last page and the current page,
\* and an ellipsis stands only between two buttons whose numbers are not
\* consecutive.
C30_PageNumbers ==
    pagination.pageNumbers # <<>> =>
        LET pages == pagination.pageNumbers
        IN /\ \A k \in Buttons : pages[k].n \in 1..pagination.totalPages
           /\ \A j, k \in Buttons : j < k => pages[j].n < pages[k].n
           /\ \A n \in {1, pagination.totalPages, pagination.currentPage} :
                  \E k \in Buttons : pages[k].n = n
           /\ \A k \in DOMAIN pages \ Buttons :
                  /\ k - 1 \in Buttons
                  /\ k + 1 \in Buttons
                  /\ pages[k + 1].n > pages[k - 1].n + 1

\* Pagination has rendered a page in the middle of many: an ellipsis on
\* either side of the current page
C30_Witness ==
    /\ Len(pagination.pageNumbers) = 7
    /\ pagination.pageNumbers[2] = Ellipsis
    /\ pagination.pageNumbers[6] = Ellipsis
    /\ pagination.pageNumbers[4] = Num(pagination.currentPage)
====
